---- MODULE Spec2Model ----
(***************************************************************************)
(* Retrieval backend for voice agents (streamlit_backend).                 *)
(*                                                                         *)
(* The model covers the query endpoint of api.py (validation, ranked       *)
(* lookup, threshold gate, error path), the Q&A save and delete endpoints, *)
(* the crawl endpoint with crawler.crawl_website and crawl_and_store, and  *)
(* the store tables they touch (knowledge_bases, document_chunks,          *)
(* website_data).                                                          *)
(*                                                                         *)
(* Specifications                                                          *)
(*  - Spec: query, Q&A save and delete requests over a store that is built;*)
(*  - GateSpec: queries over a store that is given;                        *)
(*  - CrawlSpec: one crawl_website call, statement by statement, and      *)
(*    CrawlFairSpec: the same call, which does not stop between statements;*)
(*  - RaceSpec: concurrent get_or_create_knowledge_base calls;             *)
(*  - PageSpec: save_website_data calls;                                   *)
(*  - EndpointSpec: crawl requests;                                        *)
(*  - StatusSpec: crawl requests and Q&A saves of both functions;          *)
(*  - BatchSpec: Q&A save requests, the request kept with its response;    *)
(*  - ListSpec: Q&A save, delete and list requests;                        *)
(*  - LookupSpec: the query handlers of api.py and rag_backend.py over     *)
(*    every row a lookup can hand them.                                    *)
(*                                                                         *)
(* Conventions                                                             *)
(*  - a similarity is an integer number of hundredths (0.30 is 30);        *)
(*  - an agent id is a sequence of characters, so that str.strip() is      *)
(*    computed and not assumed;                                            *)
(*  - Python's Optional[X] is a sequence of length 0 (None) or 1;          *)
(*  - None in a string-typed position is the sentinel NoneStr;             *)
(*  - uuid.uuid4() is a fresh number taken from a counter;                 *)
(*  - resp is the outcome of the most recent request, together with the    *)
(*    store accesses that request made (store_ops) and the value           *)
(*    find_best_answer handed to the gate (lookup);                        *)
(*  - crawl is the frame of a running crawl_website call: its arguments,   *)
(*    its locals and the log of the pages it asked for (fetched);          *)
(*  - callers are the frames of concurrent get_or_create_knowledge_base    *)
(*    calls, each between its select and its insert.                       *)
(***************************************************************************)
EXTENDS Integers, Sequences, FiniteSets, TLC

VARIABLES knowledge_bases, document_chunks, nextKbId, nextChunkId, resp,
          website_data, nextDataId, crawl, callers

vars == <<knowledge_bases, document_chunks, nextKbId, nextChunkId, resp,
          website_data, nextDataId, crawl, callers>>

-----------------------------------------------------------------------------
(* Bounds of the model *)

\* number of uuid4 values handed out to document_chunks rows
MaxChunks == 2

\* number of document_chunks rows of a store that is given, not built
MaxRows == 1

\* largest max_pages a crawl_website call is given
MaxPagesArg == 3

\* number of concurrent get_or_create_knowledge_base calls
MaxCallers == 2

-----------------------------------------------------------------------------
(* Values *)

NoneStr == "<None>"

\* JSON null in the similarity column of a row
NullSimilarity == -1

\* agent ids a request may carry: empty, whitespace only, and two agents
AgentIds == { <<>>, <<" ">>, <<"a">>, <<"b">> }

\* agents that curate content
StoreAgents == { <<"a">>, <<"b">> }

Questions == { "What are your hours?", "What are your prices?" }

\* the spoken_response column: null, empty, a text
SpokenResponses == { NoneStr, "", "Open 9 to 5." }

\* the content column: null, empty, a text
Contents == { NoneStr, "", "We are open from 9 to 5 on weekdays." }

Priorities == { 5, 10 }

Queries == { "what are your hours", "hours or prices", "asdkjasdkj" }

\* what can go wrong below the query handler
Faults == { "none", "no_env", "rpc_error", "null_similarity" }

\* the faults that make a call raise
RaisingFaults == { "no_env", "rpc_error" }

-----------------------------------------------------------------------------
(* Configuration of api.py *)

SIMILARITY_THRESHOLD == 30

FALLBACK_RESPONSES ==
  << "I don't have specific information about that. Would you like me to help with something else?",
     "I'm not sure about that particular question. Is there something else I can help you with?",
     "That's not something I have information on. Feel free to ask about our services or hours." >>

FallbackSet == { FALLBACK_RESPONSES[i] : i \in 1..Len(FALLBACK_RESPONSES) }

-----------------------------------------------------------------------------
(* Python helpers *)

None == <<>>

Some(x) == <<x>>

IsWhitespace(ch) == ch \in { " ", "\t", "\n" }

RECURSIVE LStrip(_)
LStrip(s) ==
  IF s = <<>> THEN <<>>
  ELSE IF IsWhitespace(Head(s)) THEN LStrip(Tail(s)) ELSE s

RECURSIVE RStrip(_)
RStrip(s) ==
  IF s = <<>> THEN <<>>
  ELSE IF IsWhitespace(s[Len(s)]) THEN RStrip(SubSeq(s, 1, Len(s) - 1)) ELSE s

\* str.strip()
Strip(s) == RStrip(LStrip(s))

\* truth value of a str or None
Truthy(text) == text # NoneStr /\ text # ""

\* x or y
OrElse(x, y) == IF Truthy(x) THEN x ELSE y

-----------------------------------------------------------------------------
(* The store: supabase_client.py *)

\* rows of knowledge_bases that belong to an agent
KbsOfAgent(kbs, agent_id) == { kb \in kbs : kb.agent_id = agent_id }

\* result.data[0] of a select on knowledge_bases: the oldest row
FirstKb(rows) == CHOOSE kb \in rows : \A other \in rows : kb.id <= other.id

\* get_or_create_knowledge_base: the id, and the table afterwards
GetOrCreateKnowledgeBase(kbs, agent_id, source_url, fresh) ==
  IF KbsOfAgent(kbs, agent_id) # {}
  THEN [ kb_id |-> FirstKb(KbsOfAgent(kbs, agent_id)).id, kbs |-> kbs, created |-> FALSE ]
  ELSE [ kb_id |-> fresh,
         kbs |-> kbs \cup { [ id |-> fresh, agent_id |-> agent_id,
                              source_url |-> source_url, status |-> "processing" ] },
         created |-> TRUE ]

\* the row save_curated_qa inserts
CuratedRow(chunk_id, kb_id, question, spoken_response, source_content, priority) ==
  [ id |-> chunk_id, kb_id |-> kb_id, question |-> question,
    spoken_response |-> spoken_response,
    content |-> OrElse(source_content, spoken_response),
    priority |-> priority ]

\* save_curated_qa
SaveCuratedQa(chunks, chunk_id, kb_id, question, spoken_response, source_content, priority) ==
  chunks \cup { CuratedRow(chunk_id, kb_id, question, spoken_response, source_content, priority) }

\* variant: the status is not written
UpdateKbStatusKeeps(kbs, kb_id, status) == kbs

\* update_kb_status
UpdateKbStatus(kbs, kb_id, status) ==
  { IF kb.id = kb_id THEN [ kb EXCEPT !.status = status ] ELSE kb : kb \in kbs }

\* client.table('document_chunks').delete().eq('id', qa_id)
DeleteChunkById(chunks, qa_id) == { c \in chunks : c.id # qa_id }

\* the agent a document_chunks row belongs to, through its knowledge base
OwnerOf(kbs, chunk) == (CHOOSE kb \in kbs : kb.id = chunk.kb_id).agent_id

\* rows of website_data of an agent and a url
PagesOf(rows, agent_id, url) == { r \in rows : r.agent_id = agent_id /\ r.url = url }

\* existing.data[0] of a select on website_data: the oldest row
FirstPage(rows) == CHOOSE r \in rows : \A other \in rows : r.id <= other.id

\* the stored procedure upsert_website_data of the store: the record of
\* (agent, url) is replaced, or inserted when there is none; its id
UpsertWebsiteDataRpc(rows, p_agent_id, p_url, p_content, fresh) ==
  LET existing == PagesOf(rows, p_agent_id, p_url)
  IN  IF existing # {}
      THEN [ id |-> FirstPage(existing).id, created |-> FALSE, action |-> NoneStr,
             rows |-> (rows \ existing) \cup
                      { [ FirstPage(existing) EXCEPT !.content = p_content ] } ]
      ELSE [ id |-> fresh, created |-> TRUE, action |-> NoneStr,
             rows |-> rows \cup { [ id |-> fresh, agent_id |-> p_agent_id, url |-> p_url,
                                    content |-> p_content, status |-> "pending" ] } ]

\* the direct path of save_website_data with the insert taken whether or
\* not the select found a row
DirectSaveAlwaysInserts(rows, agent_id, url, content, fresh) ==
  [ id |-> fresh, created |-> TRUE, action |-> "inserted",
    rows |-> rows \cup { [ id |-> fresh, agent_id |-> agent_id, url |-> url,
                           content |-> content, status |-> "pending" ] } ]

\* the direct path of save_website_data: select the ids of (agent, url),
\* update the first row by its id, or insert a row with a fresh uuid
DirectSave(rows, agent_id, url, content, fresh) ==
  LET existing == PagesOf(rows, agent_id, url)
  IN  IF existing # {}
      THEN [ id |-> FirstPage(existing).id, created |-> FALSE, action |-> "updated",
             rows |-> { IF r.id = FirstPage(existing).id
                        THEN [ r EXCEPT !.content = content, !.status = "pending" ]
                        ELSE r : r \in rows } ]
      ELSE [ id |-> fresh, created |-> TRUE, action |-> "inserted",
             rows |-> rows \cup { [ id |-> fresh, agent_id |-> agent_id, url |-> url,
                                    content |-> content, status |-> "pending" ] } ]

\* what can happen to a save_website_data call: the procedure answers, the
\* procedure raises and the direct path is taken, both raise
PageFaults == { "none", "rpc_error", "store_error" }

\* save_website_data, of a call that returns: the table afterwards, the id
SaveWebsiteData(rows, agent_id, url, content, fault, fresh) ==
  IF fault = "none"
  THEN UpsertWebsiteDataRpc(rows, agent_id, url, content, fresh)
  ELSE DirectSave(rows, agent_id, url, content, fresh)

-----------------------------------------------------------------------------
(* The ranked lookup: the stored procedure find_best_answer of the store *)

\* the score of a query against an entry, in hundredths
Similarity(user_query, question) ==
  CASE user_query = "what are your hours" ->
         (IF question = "What are your hours?" THEN 100 ELSE 29)
    [] user_query = "hours or prices" -> 30
    [] OTHER -> 0

\* the entries of the agent's knowledge bases
Corpus(kbs, chunks, p_agent_id) ==
  { c \in chunks : \E kb \in kbs : kb.id = c.kb_id /\ kb.agent_id = p_agent_id }

\* variant: the priority is not consulted
RanksBeforeByAgeOnly(user_query, c, d) ==
  LET sc == Similarity(user_query, c.question)
      sd == Similarity(user_query, d.question)
  IN  \/ sc > sd
      \/ sc = sd /\ c.id <= d.id

\* c ranks before d: higher score, then higher priority, then older
RanksBefore(user_query, c, d) ==
  LET sc == Similarity(user_query, c.question)
      sd == Similarity(user_query, d.question)
  IN  \/ sc > sd
      \/ sc = sd /\ c.priority > d.priority
      \/ sc = sd /\ c.priority = d.priority /\ c.id <= d.id

\* the rows the procedure returns: the best entry of the agent, or no row
RpcFindBestAnswer(kbs, chunks, params) ==
  LET corpus == Corpus(kbs, chunks, params.p_agent_id)
  IN  IF corpus = {} THEN <<>>
      ELSE LET best == CHOOSE c \in corpus :
                         \A d \in corpus : RanksBefore(params.user_query, c, d)
           IN  << [ id |-> best.id, question |-> best.question,
                    spoken_response |-> best.spoken_response,
                    content |-> best.content,
                    similarity |-> Similarity(params.user_query, best.question),
                    priority |-> best.priority ] >>

\* a row whose similarity column is null
WithNullSimilarity(data) ==
  [ i \in 1..Len(data) |-> [ data[i] EXCEPT !.similarity = NullSimilarity ] ]

-----------------------------------------------------------------------------
(* supabase_client.find_best_answer *)

\* variant: the agent of a test run is left in the parameters
FindBestAnswerParamsFixedAgent(agent_id, user_query) ==
  [ user_query |-> user_query, p_agent_id |-> <<"a">> ]

\* the parameters handed to the procedure
FindBestAnswerParams(agent_id, user_query) ==
  [ user_query |-> user_query, p_agent_id |-> agent_id ]

\* result.data[0] if there is a row, else None
FirstRowOrNone(data) == IF Len(data) > 0 THEN Some(data[1]) ELSE None

-----------------------------------------------------------------------------
(* api.query_rag: validation, threshold gate, error path *)

\* variant: the strip() is forgotten
IsBlankAgentIdNoStrip(agent_id) == agent_id = <<>>

\* not request.agent_id or request.agent_id.strip() == ""
IsBlankAgentId(agent_id) == agent_id = <<>> \/ Strip(agent_id) = <<>>

\* float(result.get('similarity', 0) or 0)
ToFloat(raw) == IF raw = NullSimilarity THEN 0 ELSE raw

\* variant: > for >=
ThresholdMetStrict(similarity) == similarity > SIMILARITY_THRESHOLD

\* variant: no threshold, as in rag_backend.query_rag
ThresholdMetAlways(similarity) == TRUE

\* similarity >= SIMILARITY_THRESHOLD
ThresholdMet(similarity) == similarity >= SIMILARITY_THRESHOLD

\* variant: the content column is not consulted
ResponseTextSpokenOnly(row) == row.spoken_response

\* result.get('spoken_response') or result.get('content', '')
ResponseText(row) == OrElse(row.spoken_response, row.content)

\* random.choice(FALLBACK_RESPONSES), the draw being i
RandomFallback(i) == FALLBACK_RESPONSES[i]

\* the response of a good match
MatchResponse(row, similarity) ==
  [ text |-> ResponseText(row), question_matched |-> row.question,
    similarity |-> similarity, found |-> TRUE, threshold_met |-> TRUE ]

\* variant: the fallback does not show what was matched
LowResponseNoQuestion(row, similarity, fb) ==
  [ text |-> RandomFallback(fb), question_matched |-> NoneStr,
    similarity |-> similarity, found |-> FALSE, threshold_met |-> FALSE ]

\* variant: threshold_met tells whether the similarity reached the threshold
LowResponseThresholdFlag(row, similarity, fb) ==
  [ text |-> RandomFallback(fb), question_matched |-> row.question,
    similarity |-> similarity, found |-> FALSE,
    threshold_met |-> ThresholdMet(similarity) ]

\* the response when the similarity is too low or there is no text
LowResponse(row, similarity, fb) ==
  [ text |-> RandomFallback(fb), question_matched |-> row.question,
    similarity |-> similarity, found |-> FALSE, threshold_met |-> FALSE ]

\* variant: no fallback text when there is no result
NoResultResponseEmptyText(fb) ==
  [ text |-> "", question_matched |-> NoneStr,
    similarity |-> 0, found |-> FALSE, threshold_met |-> FALSE ]

\* the response when the lookup returned nothing
NoResultResponse(fb) ==
  [ text |-> RandomFallback(fb), question_matched |-> NoneStr,
    similarity |-> 0, found |-> FALSE, threshold_met |-> FALSE ]

\* variant: the check of response_text is missing
GatePassedThresholdOnly(row, similarity) == ThresholdMet(similarity)

\* the gate is passed: threshold met and a text to return
GatePassed(row, similarity) ==
  ThresholdMet(similarity) /\ Truthy(ResponseText(row))

\* variant: the draw of the fallback also decides whether a match is kept
GateDrawDecides(result, fb) ==
  IF result # None
  THEN LET row == result[1]
           similarity == ToFloat(row.similarity)
       IN  IF GatePassed(row, similarity) /\ fb = 1
           THEN MatchResponse(row, similarity)
           ELSE LowResponse(row, similarity, fb)
  ELSE NoResultResponse(fb)

\* the body of the try block once find_best_answer has returned
Gate(result, fb) ==
  IF result # None
  THEN LET row == result[1]
           similarity == ToFloat(row.similarity)
       IN  IF GatePassed(row, similarity)
           THEN MatchResponse(row, similarity)
           ELSE LowResponse(row, similarity, fb)
  ELSE NoResultResponse(fb)

\* variant: the handler swallows the exception and answers with an empty text
ErrorOutcomeEmptyAnswer(e, store_ops) ==
  [ status |-> 200, store_ops |-> store_ops, lookup |-> None,
    text |-> "", question_matched |-> NoneStr, similarity |-> 0,
    found |-> FALSE, threshold_met |-> FALSE ]

\* except Exception as e: raise HTTPException(status_code=500, detail=str(e))
ErrorOutcome(e, store_ops) ==
  [ status |-> 500, detail |-> e, store_ops |-> store_ops, lookup |-> None ]

\* raise HTTPException(status_code=400, ...)
RejectOutcome ==
  [ status |-> 400, detail |-> "agent_id is required for agent isolation",
    store_ops |-> <<>>, lookup |-> None ]

\* str(e) of the exception a fault raises: the ValueError of
\* get_supabase_client, the error of the store's client
ExceptionText(fault) ==
  IF fault = "no_env"
  THEN "Supabase URL and Key must be set in environment variables"
  ELSE "connection refused"

\* the try block once find_best_answer has returned without raising
AfterLookup(result, fb) ==
  [ status |-> 200,
    store_ops |-> << "create_client", "rpc find_best_answer" >>,
    lookup |-> result ] @@ Gate(result, fb)

\* the try block: get_supabase_client, find_best_answer, the gate
TryQuery(kbs, chunks, agent_id, query, fault, fb) ==
  IF fault = "no_env"
  THEN ErrorOutcome(ExceptionText(fault), <<>>)
  ELSE IF fault = "rpc_error"
  THEN ErrorOutcome(ExceptionText(fault),
                    << "create_client", "rpc find_best_answer" >>)
  ELSE LET rows == RpcFindBestAnswer(kbs, chunks, FindBestAnswerParams(agent_id, query))
           data == IF fault = "null_similarity" THEN WithNullSimilarity(rows) ELSE rows
           result == FirstRowOrNone(data)
       IN  AfterLookup(result, fb)

\* the outcome of POST /api/query, with the request and the fault it met
QueryOutcome(kbs, chunks, agent_id, query, fault, fb) ==
  [ op |-> "query", agent_id |-> agent_id, query |-> query, fault |-> fault ] @@
  ( IF IsBlankAgentId(agent_id)
    THEN RejectOutcome
    ELSE TryQuery(kbs, chunks, agent_id, query, fault, fb) )

-----------------------------------------------------------------------------
(* api.get_qa_pairs *)

\* variant: the rows are not restricted to the knowledge base
QaRowsOfAnyKb(chunks, kb_id) == { c \in chunks : c.question # NoneStr }

\* .eq('kb_id', kb_id).not_.is_('question', 'null')
QaRowsOfKb(chunks, kb_id) ==
  { c \in chunks : c.kb_id = kb_id /\ c.question # NoneStr }

\* select('id, question, spoken_response, keywords, priority')
ListedColumns(c) ==
  [ id |-> c.id, question |-> c.question, spoken_response |-> c.spoken_response,
    priority |-> c.priority ]

\* .order('priority', desc=True): the lists of the rows, each once, by
\* descending priority; rows of one priority come in any order
OrderedByPriorityDesc(rows) ==
  { q \in [ 1..Cardinality(rows) -> rows ] :
      /\ \A i, j \in 1..Cardinality(rows) : i # j => q[i] # q[j]
      /\ \A i, j \in 1..Cardinality(rows) : i < j => q[i].priority >= q[j].priority }

\* the responses GET /api/qa/{agent_id} can give
GetQaPairsOutcomes(kbs, chunks, agent_id) ==
  IF KbsOfAgent(kbs, agent_id) = {}
  THEN { [ op |-> "list", status |-> 200, agent_id |-> agent_id,
           qa_pairs |-> <<>>, total |-> 0 ] }
  ELSE { [ op |-> "list", status |-> 200, agent_id |-> agent_id,
           qa_pairs |-> [ i \in 1..Len(q) |-> ListedColumns(q[i]) ], total |-> Len(q) ] :
         q \in OrderedByPriorityDesc(
                 QaRowsOfKb(chunks, FirstKb(KbsOfAgent(kbs, agent_id)).id)) }

-----------------------------------------------------------------------------
(* rag_backend.query_rag *)

\* the dict returned once find_best_answer has returned: the spoken
\* response, else the content, else a fixed text; the similarity as stored
BackendAfterLookup(result) ==
  IF result # None /\ Truthy(result[1].spoken_response)
  THEN [ text |-> result[1].spoken_response, question_matched |-> result[1].question,
         similarity |-> result[1].similarity, found |-> TRUE ]
  ELSE IF result # None /\ Truthy(result[1].content)
  THEN [ text |-> result[1].content, question_matched |-> result[1].question,
         similarity |-> result[1].similarity, found |-> TRUE ]
  ELSE [ text |-> "I don't have specific information about that. How else can I help you?",
         question_matched |-> NoneStr, similarity |-> 0, found |-> FALSE ]

\* the dict returned when get_supabase_client or find_best_answer raises
BackendErrorOutcome(e) ==
  [ text |-> "I'm having trouble accessing the information. Please try again.",
    question_matched |-> NoneStr, similarity |-> 0, found |-> FALSE, error |-> e ]

-----------------------------------------------------------------------------
(* api.save_qa_pairs and api.delete_qa_pair *)

\* the QAPair values of a request
QAPairs ==
  [ question : Questions, spoken_response : { "Open 9 to 5." }, priority : Priorities ]

\* the qa_pairs lists of a request, of at most n pairs
Batches(n) == UNION { [ 1..k -> QAPairs ] : k \in 0..n }

\* the for loop of save_qa_pairs over the pairs that are saved
RECURSIVE SaveEach(_, _, _, _)
SaveEach(chunks, kb_id, pairs, chunk_id) ==
  IF pairs = <<>> THEN chunks
  ELSE SaveEach(
         SaveCuratedQa(chunks, chunk_id, kb_id, Head(pairs).question,
                       Head(pairs).spoken_response, NoneStr, Head(pairs).priority),
         kb_id, Tail(pairs), chunk_id + 1)

\* the response of POST /api/qa/save
SaveOutcome(agent_id, saved_count, kb_id) ==
  [ op |-> "save", agent_id |-> agent_id, status |-> 200,
    success |-> TRUE, saved_count |-> saved_count, kb_id |-> kb_id ]

\* except Exception as e: raise HTTPException(status_code=500, detail=str(e))
SaveErrorOutcome(agent_id, e) ==
  [ op |-> "save", agent_id |-> agent_id, status |-> 500, detail |-> e ]

\* the response of DELETE /api/qa/{agent_id}/{qa_id}
DeleteOutcome(agent_id, qa_id) ==
  [ op |-> "delete", agent_id |-> agent_id, status |-> 200,
    success |-> TRUE, deleted_id |-> qa_id ]

-----------------------------------------------------------------------------
(* crawler.crawl_website *)

\* the pages of the site that is crawled
Urls == { "/", "/a", "/b" }

\* the lists without duplicates of elements of S
NoDupSeqs(S) ==
  { q \in UNION { [ 1..n -> S ] : n \in 0..Cardinality(S) } :
      \A i, j \in 1..Len(q) : i # j => q[i] # q[j] }

\* a site: the internal links of each page in the order of the document,
\* the pages whose fetch fails, the text the pages carry
SitesOf(contents) ==
  [ links : [ Urls -> NoDupSeqs(Urls) ], failing : SUBSET Urls, content : contents ]

InList(x, q) == \E i \in 1..Len(q) : q[i] = x

\* extract_page_content, as far as the crawl reads its result
ExtractPageContent(site, url) ==
  IF url \in site.failing
  THEN [ url |-> url, content |-> <<>>, internal_links |-> <<>>, success |-> FALSE ]
  ELSE [ url |-> url, content |-> << url, site.content >>,
         internal_links |-> site.links[url], success |-> TRUE ]

\* the frame of crawl_website after its first three statements
CrawlStart(start_url, max_pages, site) ==
  [ pc |-> "loop", site |-> site, max_pages |-> max_pages,
    visited |-> {}, to_visit |-> << start_url >>, pages |-> <<>>, fetched |-> <<>> ]

\* the urls of a list of pages
UrlsOfPages(pages) == { pages[i].url : i \in 1..Len(pages) }

\* for link in page_data['internal_links']: append it when it is neither
\* visited nor queued
RECURSIVE Enqueue(_, _, _)
Enqueue(to_visit, internal_links, visited) ==
  IF internal_links = <<>> THEN to_visit
  ELSE LET link == Head(internal_links)
       IN  Enqueue(IF link \notin visited /\ ~InList(link, to_visit)
                   THEN Append(to_visit, link) ELSE to_visit,
                   Tail(internal_links), visited)

\* while to_visit and len(pages) < max_pages
LoopConditionNoCap(st) == st.to_visit # <<>>

LoopCondition(st) == st.to_visit # <<>> /\ Len(st.pages) < st.max_pages

\* the body of the loop without visited.add(url)
CrawlIterationNoVisitedAdd(st) ==
  LET url == Head(st.to_visit)
      page_data == ExtractPageContent(st.site, url)
  IN  IF url \in st.visited THEN [ st EXCEPT !.to_visit = Tail(@) ]
      ELSE IF page_data.success
      THEN [ st EXCEPT !.to_visit = Enqueue(Tail(@), page_data.internal_links, st.visited),
                       !.pages = Append(@, page_data), !.fetched = Append(@, url) ]
      ELSE [ st EXCEPT !.to_visit = Tail(@), !.fetched = Append(@, url) ]

\* the body of the loop with a failed page appended like a fetched one
CrawlIterationKeepsFailed(st) ==
  LET url == Head(st.to_visit)
      seen == st.visited \cup { url }
      page_data == ExtractPageContent(st.site, url)
  IN  IF url \in st.visited THEN [ st EXCEPT !.to_visit = Tail(@) ]
      ELSE [ st EXCEPT !.to_visit = Enqueue(Tail(@), page_data.internal_links, seen),
                       !.visited = seen,
                       !.pages = Append(@, page_data), !.fetched = Append(@, url) ]

\* the body of the loop with a page whose fetch failed queued again
CrawlIterationRetriesFailed(st) ==
  LET url == Head(st.to_visit)
      seen == st.visited \cup { url }
      page_data == ExtractPageContent(st.site, url)
  IN  IF page_data.success
      THEN [ st EXCEPT !.to_visit = Enqueue(Tail(@), page_data.internal_links, seen),
                       !.visited = seen,
                       !.pages = Append(@, page_data), !.fetched = Append(@, url) ]
      ELSE [ st EXCEPT !.to_visit = Append(Tail(@), url), !.fetched = << url >> ]

\* the body of the loop: pop, skip a visited url, fetch, keep a fetched page
\* and queue its links
CrawlIteration(st) ==
  LET url == Head(st.to_visit)
      seen == st.visited \cup { url }
      page_data == ExtractPageContent(st.site, url)
  IN  IF url \in st.visited THEN [ st EXCEPT !.to_visit = Tail(@) ]
      ELSE IF page_data.success
      THEN [ st EXCEPT !.to_visit = Enqueue(Tail(@), page_data.internal_links, seen),
                       !.visited = seen,
                       !.pages = Append(@, page_data), !.fetched = Append(@, url) ]
      ELSE [ st EXCEPT !.to_visit = Tail(@), !.visited = seen,
                       !.fetched = Append(@, url) ]

\* the loop run to its end
RECURSIVE CrawlLoop(_)
CrawlLoop(st) == IF LoopCondition(st) THEN CrawlLoop(CrawlIteration(st)) ELSE st

\* crawl_website: the pages it returns
CrawlWebsite(start_url, max_pages, site) ==
  CrawlLoop(CrawlStart(start_url, max_pages, site)).pages

-----------------------------------------------------------------------------
(* crawler.crawl_and_store and api.crawl_website_endpoint *)

\* max_pages of a CrawlRequest that names none
DefaultMaxPages == 5

\* what can happen to the store accesses of crawl_and_store outside the
\* saving of pages: get_supabase_client raises, get_or_create_knowledge_base
\* raises, update_kb_status raises
CrawlFaults == { "none", "no_env", "kb_error", "status_error" }

\* the for loop over the pages: a page whose save raises is not counted
RECURSIVE StorePages(_, _, _, _, _, _)
StorePages(rows, agent_id, pages, page_fault, fresh, pages_stored) ==
  IF pages = <<>>
  THEN [ rows |-> rows, fresh |-> fresh, pages_stored |-> pages_stored ]
  ELSE IF page_fault[Head(pages).url] = "store_error"
  THEN StorePages(rows, agent_id, Tail(pages), page_fault, fresh, pages_stored)
  ELSE LET saved == SaveWebsiteData(rows, agent_id, Head(pages).url, Head(pages).content,
                                    page_fault[Head(pages).url], fresh)
       IN  StorePages(saved.rows, agent_id, Tail(pages), page_fault,
                      IF saved.created THEN fresh + 1 ELSE fresh, pages_stored + 1)

\* crawl_and_store, to its return or to the exception that leaves it: what
\* it returns and the tables afterwards
CrawlAndStore(kbs, rows, agent_id, website_url, max_pages, site, fault, page_fault, fresh_kb, fresh_page) ==
  IF fault \in { "no_env", "kb_error" }
  THEN [ raised |-> TRUE, kbs |-> kbs, rows |-> rows, kb_created |-> FALSE,
         fresh |-> fresh_page, kb_id |-> 0, pages_crawled |-> 0, pages_stored |-> 0 ]
  ELSE LET got == GetOrCreateKnowledgeBase(kbs, agent_id, website_url, fresh_kb)
           pages == CrawlWebsite(website_url, max_pages, site)
           stored == StorePages(rows, agent_id, pages, page_fault, fresh_page, 0)
       IN  [ raised |-> fault = "status_error",
             kbs |-> IF fault = "status_error" THEN got.kbs
                     ELSE UpdateKbStatus(got.kbs, got.kb_id, "crawled"),
             rows |-> stored.rows, kb_created |-> got.created, fresh |-> stored.fresh,
             kb_id |-> got.kb_id, pages_crawled |-> Len(pages),
             pages_stored |-> stored.pages_stored ]

\* the response of POST /api/crawl with the failure decided by the pages
\* that were stored
CrawlOutcomeByPagesStored(done) ==
  IF done.raised
  THEN [ status |-> 500, detail |-> "store unavailable" ]
  ELSE IF done.pages_stored = 0
  THEN [ status |-> 200, success |-> FALSE, kb_id |-> <<>>, pages_crawled |-> 0,
         pages_saved |-> 0, message |-> "Failed to crawl website. Please check the URL." ]
  ELSE [ status |-> 200, success |-> TRUE, kb_id |-> << done.kb_id >>,
         pages_crawled |-> done.pages_crawled, pages_saved |-> done.pages_stored,
         message |-> "Successfully crawled" ]

\* the response of POST /api/crawl; kb_id is a string: empty, or the id
CrawlOutcome(done) ==
  IF done.raised
  THEN [ status |-> 500, detail |-> "store unavailable" ]
  ELSE IF done.pages_crawled = 0
  THEN [ status |-> 200, success |-> FALSE, kb_id |-> <<>>, pages_crawled |-> 0,
         pages_saved |-> 0, message |-> "Failed to crawl website. Please check the URL." ]
  ELSE [ status |-> 200, success |-> TRUE, kb_id |-> << done.kb_id >>,
         pages_crawled |-> done.pages_crawled, pages_saved |-> done.pages_stored,
         message |-> "Successfully crawled" ]

-----------------------------------------------------------------------------
(* crawler.save_qa_to_supabase *)

\* the pairs of a list whose position is not in skip
RECURSIVE Keep(_, _, _)
Keep(pairs, skip, i) ==
  IF i > Len(pairs) THEN <<>>
  ELSE IF i \in skip THEN Keep(pairs, skip, i + 1)
  ELSE << pairs[i] >> \o Keep(pairs, skip, i + 1)

-----------------------------------------------------------------------------
(* The state machine *)

\* no crawl_website call is running
NoCrawl == [ pc |-> "idle" ]

\* no get_or_create_knowledge_base call is running
NoCallers == [ unique_agent |-> FALSE, calls |-> <<>> ]

Init ==
  /\ knowledge_bases = {}
  /\ document_chunks = {}
  /\ nextKbId = 1
  /\ nextChunkId = 1
  /\ resp = [ op |-> "none" ]
  /\ website_data = {}
  /\ nextDataId = 1
  /\ crawl = NoCrawl
  /\ callers = NoCallers

\* POST /api/query with the knowledge base of the agent created when the
\* agent has none
QueryRagCreatesKb ==
  \E agent_id \in AgentIds, query \in Queries, fault \in Faults,
     fb \in 1..Len(FALLBACK_RESPONSES) :
    /\ IsBlankAgentId(agent_id) => fault = "none"
    /\ (IsBlankAgentId(agent_id) \/ fault \in RaisingFaults) => fb = 1
    /\ resp' = QueryOutcome(knowledge_bases, document_chunks, agent_id, query, fault, fb)
    /\ knowledge_bases' =
         IF IsBlankAgentId(agent_id) \/ fault \in RaisingFaults THEN knowledge_bases
         ELSE GetOrCreateKnowledgeBase(knowledge_bases, agent_id, "curated", nextKbId).kbs
    /\ nextKbId' = nextKbId + 1
    /\ UNCHANGED <<document_chunks, nextChunkId>>
    /\ UNCHANGED <<website_data, nextDataId, crawl, callers>>

\* POST /api/query. A request that is rejected meets no fault, and a request
\* that is rejected or meets a fault that raises draws no fallback: the inputs
\* that are not read are fixed
QueryRag ==
  \E agent_id \in AgentIds, query \in Queries, fault \in Faults,
     fb \in 1..Len(FALLBACK_RESPONSES) :
    /\ IsBlankAgentId(agent_id) => fault = "none"
    /\ (IsBlankAgentId(agent_id) \/ fault \in RaisingFaults) => fb = 1
    /\ resp' = QueryOutcome(knowledge_bases, document_chunks, agent_id, query, fault, fb)
    /\ UNCHANGED <<knowledge_bases, document_chunks, nextKbId, nextChunkId>>
    /\ UNCHANGED <<website_data, nextDataId, crawl, callers>>

\* variant: the pairs saved before the one that raises are rolled back
SaveQaPairsAllOrNothing(agent_id, qa_pairs, failAt) ==
  LET got == GetOrCreateKnowledgeBase(knowledge_bases, agent_id, "curated", nextKbId)
      saved == IF failAt = 0 THEN qa_pairs ELSE <<>>
  IN  /\ document_chunks' = SaveEach(document_chunks, got.kb_id, saved, nextChunkId)
      /\ nextChunkId' = nextChunkId + Len(saved)
      /\ nextKbId' = IF got.created THEN nextKbId + 1 ELSE nextKbId
      /\ knowledge_bases' =
           IF failAt = 0 THEN UpdateKbStatus(got.kbs, got.kb_id, "ready") ELSE got.kbs
      /\ UNCHANGED <<website_data, nextDataId, crawl, callers>>

\* what save_qa_pairs does to the store; failAt = k > 0: the insert of the
\* k-th pair raises
SaveQaPairsWrites(agent_id, qa_pairs, failAt) ==
  LET got == GetOrCreateKnowledgeBase(knowledge_bases, agent_id, "curated", nextKbId)
      saved == IF failAt = 0 THEN qa_pairs ELSE SubSeq(qa_pairs, 1, failAt - 1)
  IN  /\ document_chunks' = SaveEach(document_chunks, got.kb_id, saved, nextChunkId)
      /\ nextChunkId' = nextChunkId + Len(saved)
      /\ nextKbId' = IF got.created THEN nextKbId + 1 ELSE nextKbId
      /\ knowledge_bases' =
           IF failAt = 0 THEN UpdateKbStatus(got.kbs, got.kb_id, "ready") ELSE got.kbs
      /\ UNCHANGED <<website_data, nextDataId, crawl, callers>>

\* what save_qa_pairs answers
SaveQaPairsResponse(agent_id, qa_pairs, failAt) ==
  IF failAt = 0
  THEN SaveOutcome(agent_id, Len(qa_pairs),
         GetOrCreateKnowledgeBase(knowledge_bases, agent_id, "curated", nextKbId).kb_id)
  ELSE SaveErrorOutcome(agent_id, "insert into document_chunks failed")

\* POST /api/qa/save, of a list no longer than the uuids that are left
SaveQaPairs ==
  \E agent_id \in StoreAgents :
    \E qa_pairs \in Batches(MaxChunks + 1 - nextChunkId) :
      \E failAt \in 0..Len(qa_pairs) :
        /\ SaveQaPairsWrites(agent_id, qa_pairs, failAt)
        /\ resp' = SaveQaPairsResponse(agent_id, qa_pairs, failAt)

\* DELETE /api/qa/{agent_id}/{qa_id}
DeleteQaPair ==
  \E agent_id \in StoreAgents, qa_id \in 1..MaxChunks :
    /\ document_chunks' = DeleteChunkById(document_chunks, qa_id)
    /\ resp' = DeleteOutcome(agent_id, qa_id)
    /\ UNCHANGED <<knowledge_bases, nextKbId, nextChunkId>>
    /\ UNCHANGED <<website_data, nextDataId, crawl, callers>>

Next ==
  \/ QueryRag
  \/ SaveQaPairs
  \/ DeleteQaPair

Spec == Init /\ [][Next]_vars

-----------------------------------------------------------------------------
(* The query endpoint over a store that is given: every content the two    *)
(* tables can hold for two agents, whoever wrote the rows                  *)

\* the columns of a document_chunks row but its id
RowBodies ==
  [ kb_id : { 1, 2 }, question : Questions, spoken_response : SpokenResponses,
    content : Contents, priority : Priorities ]

\* the document_chunks tables of at most MaxRows rows
GivenChunks ==
  UNION { { { [ id |-> i ] @@ f[i] : i \in 1..n } : f \in [ 1..n -> RowBodies ] } :
          n \in 0..MaxRows }

GivenInit ==
  /\ knowledge_bases =
       { [ id |-> 1, agent_id |-> <<"a">>, source_url |-> "curated", status |-> "ready" ],
         [ id |-> 2, agent_id |-> <<"b">>, source_url |-> "curated", status |-> "ready" ] }
  /\ document_chunks \in GivenChunks
  /\ nextKbId = 3
  /\ nextChunkId = MaxRows + 1
  /\ resp = [ op |-> "none" ]
  /\ website_data = {}
  /\ nextDataId = 1
  /\ crawl = NoCrawl
  /\ callers = NoCallers

GivenNext == QueryRag

GateSpec == GivenInit /\ [][GivenNext]_vars

-----------------------------------------------------------------------------
(* One crawl_website call, statement by statement, over every site of the  *)
(* three pages, every set of failing pages and every max_pages             *)

CrawlInit ==
  /\ knowledge_bases = {}
  /\ document_chunks = {}
  /\ nextKbId = 1
  /\ nextChunkId = 1
  /\ resp = [ op |-> "none" ]
  /\ website_data = {}
  /\ nextDataId = 1
  /\ callers = NoCallers
  /\ crawl \in { CrawlStart("/", max_pages, site) :
                   max_pages \in -1..MaxPagesArg, site \in SitesOf({ "v1" }) }

\* one turn of the while loop
CrawlTurn ==
  /\ crawl.pc = "loop"
  /\ LoopCondition(crawl)
  /\ crawl' = CrawlIteration(crawl)
  /\ UNCHANGED <<knowledge_bases, document_chunks, nextKbId, nextChunkId, resp,
                 website_data, nextDataId, callers>>

\* return pages
CrawlReturn ==
  /\ crawl.pc = "loop"
  /\ ~LoopCondition(crawl)
  /\ crawl' = [ crawl EXCEPT !.pc = "done" ]
  /\ UNCHANGED <<knowledge_bases, document_chunks, nextKbId, nextChunkId, resp,
                 website_data, nextDataId, callers>>

CrawlNext ==
  \/ CrawlTurn
  \/ CrawlReturn

CrawlSpec == CrawlInit /\ [][CrawlNext]_vars

\* the call runs on: a statement that can be executed is executed
CrawlFairSpec == CrawlInit /\ [][CrawlNext]_vars /\ WF_vars(CrawlNext)

-----------------------------------------------------------------------------
(* Concurrent get_or_create_knowledge_base calls, one store access at a    *)
(* time. The schema of knowledge_bases is not part of the program: the     *)
(* table either accepts a second row of an agent or rejects its insert     *)
(* (unique_agent), and both are explored                                   *)

\* the source_url a crawl and a Q&A save create a knowledge base with
SourceUrls == { "/", "curated" }

\* a call that has not yet accessed the store
CallFrames ==
  [ pc : { "select" }, agent_id : StoreAgents, source_url : SourceUrls, kb_id : { None } ]

RaceInit ==
  /\ knowledge_bases = {}
  /\ document_chunks = {}
  /\ nextKbId = 1
  /\ nextChunkId = 1
  /\ resp = [ op |-> "none" ]
  /\ website_data = {}
  /\ nextDataId = 1
  /\ crawl = NoCrawl
  /\ callers \in [ unique_agent : BOOLEAN, calls : [ 1..MaxCallers -> CallFrames ] ]

\* result = select id where agent_id = ...; if result.data: return data[0].id
GocSelect(c) ==
  LET call == callers.calls[c]
      rows == KbsOfAgent(knowledge_bases, call.agent_id)
  IN  /\ call.pc = "select"
      /\ callers' =
           [ callers EXCEPT !.calls[c] =
               IF rows # {}
               THEN [ call EXCEPT !.pc = "done", !.kb_id = Some(FirstKb(rows).id) ]
               ELSE [ call EXCEPT !.pc = "insert" ] ]
      /\ UNCHANGED <<knowledge_bases, document_chunks, nextKbId, nextChunkId, resp,
                     website_data, nextDataId, crawl>>

\* kb_id = uuid4(); insert the row; return kb_id. The insert raises when
\* the table keeps one row per agent and the agent has a row
GocInsert(c) ==
  LET call == callers.calls[c]
      rows == KbsOfAgent(knowledge_bases, call.agent_id)
  IN  /\ call.pc = "insert"
      /\ IF callers.unique_agent /\ rows # {}
         THEN /\ callers' = [ callers EXCEPT !.calls[c].pc = "raised" ]
              /\ UNCHANGED knowledge_bases
         ELSE /\ callers' = [ callers EXCEPT !.calls[c].pc = "done",
                                             !.calls[c].kb_id = Some(nextKbId) ]
              /\ knowledge_bases' = knowledge_bases \cup
                   { [ id |-> nextKbId, agent_id |-> call.agent_id,
                       source_url |-> call.source_url, status |-> "processing" ] }
      /\ nextKbId' = nextKbId + 1
      /\ UNCHANGED <<document_chunks, nextChunkId, resp, website_data, nextDataId, crawl>>

RaceNext ==
  \E c \in 1..MaxCallers :
    \/ GocSelect(c)
    \/ GocInsert(c)

RaceSpec == RaceInit /\ [][RaceNext]_vars

-----------------------------------------------------------------------------
(* Calls of save_website_data, one after the other, for two agents and two *)
(* urls, through the stored procedure or through the direct path           *)

\* the urls and the texts that are saved
SavedUrls == { "/", "/a" }

Versions == { "v1", "v2" }

\* a call that returns
SaveWebsiteDataCall ==
  \E agent_id \in StoreAgents, url \in SavedUrls, version \in Versions,
     fault \in { "none", "rpc_error" } :
    LET saved == SaveWebsiteData(website_data, agent_id, url, << url, version >>,
                                 fault, nextDataId)
    IN  /\ website_data' = saved.rows
        /\ nextDataId' = IF saved.created THEN nextDataId + 1 ELSE nextDataId
        /\ resp' = [ op |-> "save_website_data", agent_id |-> agent_id, url |-> url,
                     content |-> << url, version >>, fault |-> fault,
                     raised |-> FALSE, id |-> saved.id, action |-> saved.action ]
        /\ UNCHANGED <<knowledge_bases, document_chunks, nextKbId, nextChunkId,
                       crawl, callers>>

\* a call whose procedure and whose select raise: the exception leaves
\* save_website_data and nothing was written
SaveWebsiteDataRaises ==
  \E agent_id \in StoreAgents, url \in SavedUrls, version \in Versions :
    /\ resp' = [ op |-> "save_website_data", agent_id |-> agent_id, url |-> url,
                 content |-> << url, version >>, fault |-> "store_error",
                 raised |-> TRUE, id |-> 0, action |-> NoneStr ]
    /\ UNCHANGED <<knowledge_bases, document_chunks, nextKbId, nextChunkId,
                   website_data, nextDataId, crawl, callers>>

PageNext ==
  \/ SaveWebsiteDataCall
  \/ SaveWebsiteDataRaises

PageSpec == Init /\ [][PageNext]_vars

-----------------------------------------------------------------------------
(* POST /api/crawl, one request after the other, over the sites of a home  *)
(* page and a page that link to each other                                 *)

\* the sites that are crawled: each of the two pages can fail
CrawlSites ==
  { [ links |-> [ u \in Urls |-> CASE u = "/" -> << "/a" >>
                                   [] u = "/a" -> << "/" >>
                                   [] OTHER -> <<>> ],
      failing |-> failing, content |-> "v1" ] : failing \in SUBSET { "/", "/a" } }

\* the agent whose site is crawled
CrawlAgents == { <<"a">> }

\* what happens to the save of each page, of the pages that are saved
PageFaultsOver(urls) ==
  { [ u \in Urls |-> IF u \in urls THEN f[u] ELSE "none" ] : f \in [ urls -> PageFaults ] }

\* a request: crawl_and_store and the response built from what it returns
CrawlRequestOf(agent_id, max_pages, site, fault, page_fault) ==
  LET done == CrawlAndStore(knowledge_bases, website_data, agent_id, "/", max_pages,
                            site, fault, page_fault, nextKbId, nextDataId)
  IN  /\ knowledge_bases' = done.kbs
      /\ website_data' = done.rows
      /\ nextKbId' = IF done.kb_created THEN nextKbId + 1 ELSE nextKbId
      /\ nextDataId' = done.fresh
      /\ resp' = [ op |-> "crawl", agent_id |-> agent_id, max_pages |-> max_pages,
                   site |-> site, fault |-> fault, page_fault |-> page_fault ]
                 @@ CrawlOutcome(done)
      /\ UNCHANGED <<document_chunks, nextChunkId, crawl, callers>>

\* POST /api/crawl. The inputs that are not read are fixed: the site when
\* nothing is fetched, the fault of the save of a page that is not fetched
CrawlWebsiteEndpoint ==
  \E agent_id \in CrawlAgents, max_pages \in { 0, 1, DefaultMaxPages },
     site \in CrawlSites, fault \in CrawlFaults :
    /\ ( max_pages = 0 \/ fault \in { "no_env", "kb_error" } ) => site.failing = {}
    /\ \E page_fault \in PageFaultsOver(
            IF fault \in { "no_env", "kb_error" } THEN {}
            ELSE UrlsOfPages(CrawlWebsite("/", max_pages, site))) :
         CrawlRequestOf(agent_id, max_pages, site, fault, page_fault)

EndpointNext == CrawlWebsiteEndpoint

EndpointSpec == Init /\ [][EndpointNext]_vars

-----------------------------------------------------------------------------
(* The status of the knowledge bases under crawls and Q&A saves, one       *)
(* request after the other. The status does not depend on the entries that *)
(* are already stored nor on the pages of the site: one uuid is left for   *)
(* document_chunks, and the site has one page                              *)

\* a site of one page
OnePageSite ==
  [ links |-> [ u \in Urls |-> <<>> ], failing |-> {}, content |-> "v1" ]

StatusInit ==
  /\ knowledge_bases = {}
  /\ document_chunks = {}
  /\ nextKbId = 1
  /\ nextChunkId = MaxChunks
  /\ resp = [ op |-> "none" ]
  /\ website_data = {}
  /\ nextDataId = 1
  /\ crawl = NoCrawl
  /\ callers = NoCallers

\* POST /api/crawl of the one-page site, for either agent
CrawlOnePage ==
  \E agent_id \in StoreAgents, fault \in { "none", "status_error" } :
    CrawlRequestOf(agent_id, DefaultMaxPages, OnePageSite, fault,
                   [ u \in Urls |-> "none" ])

\* save_qa_to_supabase(agent_id, qa_pairs); the saves of the pairs at the
\* positions of failing raise and are skipped; the status is set whatever
\* was saved
SaveQaToSupabase ==
  \E agent_id \in StoreAgents :
    \E qa_pairs \in Batches(MaxChunks + 1 - nextChunkId) :
      \E failing \in SUBSET (1..Len(qa_pairs)) :
        LET got == GetOrCreateKnowledgeBase(knowledge_bases, agent_id, "curated", nextKbId)
            saved == Keep(qa_pairs, failing, 1)
        IN  /\ document_chunks' = SaveEach(document_chunks, got.kb_id, saved, nextChunkId)
            /\ nextChunkId' = nextChunkId + Len(saved)
            /\ nextKbId' = IF got.created THEN nextKbId + 1 ELSE nextKbId
            /\ knowledge_bases' = UpdateKbStatus(got.kbs, got.kb_id, "ready")
            /\ resp' = [ op |-> "save_qa_to_supabase", agent_id |-> agent_id,
                         batch |-> Len(qa_pairs), saved_count |-> Len(saved) ]
            /\ UNCHANGED <<website_data, nextDataId, crawl, callers>>

StatusNext ==
  \/ CrawlOnePage
  \/ SaveQaPairs
  \/ SaveQaToSupabase

StatusSpec == StatusInit /\ [][StatusNext]_vars

-----------------------------------------------------------------------------
(* The query handler as a function of what find_best_answer returns: the   *)
(* row of the lookup is an input, with every value of its similarity       *)
(* column, in and out of the range of a score, null or missing (both read  *)
(* as NullSimilarity by result.get('similarity', 0) or 0)                  *)

\* the values of the similarity column, in hundredths
RawSimilarities == { NullSimilarity, 0 - 50, 0, 29, 30, 100, 150 }

\* the rows find_best_answer can return
LookupRows ==
  [ id : { 1 }, question : Questions, spoken_response : SpokenResponses,
    content : Contents, similarity : RawSimilarities, priority : { 5 } ]

\* POST /api/query of agent a, the lookup returning row
QueryOverLookup ==
  \E row \in LookupRows, fb \in 1..Len(FALLBACK_RESPONSES) :
    /\ resp' = [ op |-> "query", agent_id |-> <<"a">>, query |-> "what are your hours",
                 fault |-> "none" ] @@ AfterLookup(Some(row), fb)
    /\ UNCHANGED <<knowledge_bases, document_chunks, nextKbId, nextChunkId>>
    /\ UNCHANGED <<website_data, nextDataId, crawl, callers>>

\* rag_backend.query_rag of agent a: the lookup returns a row or nothing,
\* or a call raises
BackendQueryOverLookup ==
  \E result \in { None } \cup { Some(row) : row \in LookupRows }, fault \in { "none" } \cup RaisingFaults :
    /\ fault \in RaisingFaults => result = None
    /\ resp' = [ op |-> "rag_backend_query", agent_id |-> <<"a">>,
                 query |-> "what are your hours", fault |-> fault, lookup |-> result ]
               @@ ( IF fault \in RaisingFaults
                    THEN BackendErrorOutcome(ExceptionText(fault))
                    ELSE BackendAfterLookup(result) )
    /\ UNCHANGED <<knowledge_bases, document_chunks, nextKbId, nextChunkId>>
    /\ UNCHANGED <<website_data, nextDataId, crawl, callers>>

LookupNext ==
  \/ QueryOverLookup
  \/ BackendQueryOverLookup

LookupSpec == Init /\ [][LookupNext]_vars

-----------------------------------------------------------------------------
(* The Q&A management endpoints: save, delete and list, one request after  *)
(* the other                                                               *)

\* GET /api/qa/{agent_id}; get_supabase_client can raise
GetQaPairs ==
  \E agent_id \in StoreAgents, fault \in { "none", "no_env" } :
    /\ resp' \in IF fault = "no_env"
                 THEN { [ op |-> "list", status |-> 500, agent_id |-> agent_id,
                          detail |-> ExceptionText(fault) ] }
                 ELSE GetQaPairsOutcomes(knowledge_bases, document_chunks, agent_id)
    /\ UNCHANGED <<knowledge_bases, document_chunks, nextKbId, nextChunkId>>
    /\ UNCHANGED <<website_data, nextDataId, crawl, callers>>

ListNext ==
  \/ SaveQaPairs
  \/ DeleteQaPair
  \/ GetQaPairs

ListSpec == Init /\ [][ListNext]_vars

-----------------------------------------------------------------------------
(* POST /api/qa/save, one request after the other, the response kept with  *)
(* the list of the request and the place of the pair whose save raised     *)

SaveQaPairsTraced ==
  \E agent_id \in StoreAgents :
    \E qa_pairs \in Batches(MaxChunks + 1 - nextChunkId) :
      \E failAt \in 0..Len(qa_pairs) :
        /\ SaveQaPairsWrites(agent_id, qa_pairs, failAt)
        /\ resp' = SaveQaPairsResponse(agent_id, qa_pairs, failAt)
                   @@ [ qa_pairs |-> qa_pairs, failed_at |-> failAt ]

BatchNext == SaveQaPairsTraced

BatchSpec == Init /\ [][BatchNext]_vars

-----------------------------------------------------------------------------
(* Properties *)

\* an agent id that is empty or holds only spaces
OnlySpaces(agent_id) == \A i \in 1..Len(agent_id) : agent_id[i] = " "

\* the last request was a query that returned a QueryResponse
Answered == resp.op = "query" /\ resp.status = 200

\* the last request was a query whose lookup returned a row
LookupReturnedRow == resp.op = "query" /\ resp.lookup # None

\* the row the lookup returned
LookupRow == resp.lookup[1]

\* a value of a text column that is empty or absent
EmptyOrAbsent(text) == text = "" \/ text = NoneStr

\* C1: a lookup result with similarity >= 0.30 (0.30 included) and a
\* non-empty spoken_response is answered with exactly that spoken_response,
\* found = true and threshold_met = true
C1_VerbatimAboveThreshold ==
  ( /\ LookupReturnedRow
    /\ LookupRow.similarity >= 30
    /\ ~EmptyOrAbsent(LookupRow.spoken_response) )
  => /\ resp.status = 200
     /\ resp.text = LookupRow.spoken_response
     /\ resp.found = TRUE
     /\ resp.threshold_met = TRUE

\* C1 witness: an entry scored exactly 0.30 is returned verbatim
C1_Witness ==
  /\ LookupReturnedRow
  /\ LookupRow.similarity = 30
  /\ LookupRow.spoken_response = "Open 9 to 5."
  /\ resp.text = "Open 9 to 5."
  /\ resp.found = TRUE

\* C2: a lookup result with similarity < 0.30 is answered with found = false,
\* threshold_met = false and a text of the fallback set, whatever the entry's
\* spoken_response and content are
C2_FallbackBelowThreshold ==
  ( LookupReturnedRow /\ LookupRow.similarity < 30 )
  => /\ resp.status = 200
     /\ resp.found = FALSE
     /\ resp.threshold_met = FALSE
     /\ resp.text \in FallbackSet

\* C2 witness: an entry with a spoken_response, scored 0.29, is not returned
C2_Witness ==
  /\ LookupReturnedRow
  /\ LookupRow.similarity = 29
  /\ LookupRow.spoken_response = "Open 9 to 5."
  /\ resp.found = FALSE
  /\ resp.text \in FallbackSet

\* C3: for an agent with no knowledge base or no entries the lookup returns
\* nothing and the answer is found = false, threshold_met = false,
\* similarity = 0.0, question_matched = null and a text of the fallback set
C3_EmptyCorpusFallsBack ==
  ( /\ resp.op = "query"
    /\ ~OnlySpaces(resp.agent_id)
    /\ resp.fault = "none"
    /\ \A c \in document_chunks : OwnerOf(knowledge_bases, c) # resp.agent_id )
  => /\ resp.status = 200
     /\ resp.lookup = None
     /\ resp.found = FALSE
     /\ resp.threshold_met = FALSE
     /\ resp.similarity = 0
     /\ resp.question_matched = NoneStr
     /\ resp.text \in FallbackSet

\* C3 witness: the agent has a knowledge base that holds no entry, another
\* agent has entries, and the query is answered with a fallback
C3_Witness ==
  /\ resp.op = "query"
  /\ resp.fault = "none"
  /\ resp.agent_id = <<"a">>
  /\ \E kb \in knowledge_bases : kb.agent_id = <<"a">>
  /\ document_chunks # {}
  /\ \A c \in document_chunks : OwnerOf(knowledge_bases, c) = <<"b">>
  /\ resp.text \in FallbackSet
  /\ resp.similarity = 0

\* C4: a query whose agent_id is empty or whitespace-only is rejected with
\* status 400 and makes no store access: no client is created, no lookup issued
C4_BlankAgentRejectedBeforeStore ==
  ( resp.op = "query" /\ OnlySpaces(resp.agent_id) )
  => /\ resp.status = 400
     /\ resp.store_ops = <<>>
     /\ resp.lookup = None

\* C4 witness: a whitespace-only agent_id was rejected while the store holds
\* entries
C4_Witness ==
  /\ resp.op = "query"
  /\ resp.agent_id = <<" ">>
  /\ resp.status = 400
  /\ document_chunks # {}

\* C5: a query scoped to an agent answers only from entries of that agent's
\* knowledge bases: the row it is handed, question_matched and the text of
\* a match all come from one entry owned by the agent of the request
C5_AgentIsolation ==
  LookupReturnedRow
  => \E c \in document_chunks :
       /\ OwnerOf(knowledge_bases, c) = resp.agent_id
       /\ c.id = LookupRow.id
       /\ resp.question_matched = c.question
       /\ (resp.found => resp.text \in { c.spoken_response, c.content })

\* C5 witness: both agents hold an entry with the same question text and the
\* query of agent b is answered from the entry of agent b
C5_Witness ==
  /\ LookupReturnedRow
  /\ resp.agent_id = <<"b">>
  /\ resp.found = TRUE
  /\ \E ca \in document_chunks, cb \in document_chunks :
       /\ OwnerOf(knowledge_bases, ca) = <<"a">>
       /\ OwnerOf(knowledge_bases, cb) = <<"b">>
       /\ ca.question = cb.question
       /\ cb.id = LookupRow.id

\* C6: DELETE /api/qa/{agent_id}/{qa_id} removes no entry of a knowledge base
\* of another agent than agent_id
C6_DeleteScopedByAgent ==
  [][ resp'.op = "delete"
      => \A c \in document_chunks \ document_chunks' :
           OwnerOf(knowledge_bases, c) = resp'.agent_id ]_vars

\* C7: question_matched is non-null whenever the lookup returned an entry,
\* threshold met or not, and null only when no entry was returned
C7_QuestionMatchedIffEntry ==
  Answered
  => /\ (resp.lookup # None <=> resp.question_matched # NoneStr)
     /\ (resp.lookup # None => resp.question_matched = LookupRow.question)

\* C7 witness: the best entry is below the threshold, the answer is a
\* fallback and still names the question of that entry
C7_Witness ==
  /\ Answered
  /\ resp.lookup # None
  /\ LookupRow.similarity = 29
  /\ resp.found = FALSE
  /\ resp.question_matched = "What are your prices?"

\* C8: a best entry at or above the threshold whose spoken_response and
\* content are both empty or absent is answered with a fallback
\* (found = false, text of the fallback set), and no answer with
\* found = true has an empty text
C8_NoEmptyTextAsMatch ==
  /\ ( /\ LookupReturnedRow
       /\ LookupRow.similarity >= 30
       /\ EmptyOrAbsent(LookupRow.spoken_response)
       /\ EmptyOrAbsent(LookupRow.content) )
     => /\ resp.status = 200
        /\ resp.found = FALSE
        /\ resp.text \in FallbackSet
  /\ (Answered /\ resp.found) => ~EmptyOrAbsent(resp.text)

\* C8 witness: an entry scored 1.0 with an empty spoken_response and no
\* content is answered with a fallback
C8_Witness ==
  /\ LookupReturnedRow
  /\ LookupRow.similarity = 100
  /\ LookupRow.spoken_response = ""
  /\ LookupRow.content = NoneStr
  /\ resp.found = FALSE
  /\ resp.text \in FallbackSet

\* C9: a best entry at or above the threshold with an empty or absent
\* spoken_response and a non-empty content is answered with exactly that
\* content, found = true and threshold_met = true
C9_ContentWhenNoSpokenResponse ==
  ( /\ LookupReturnedRow
    /\ LookupRow.similarity >= 30
    /\ EmptyOrAbsent(LookupRow.spoken_response)
    /\ ~EmptyOrAbsent(LookupRow.content) )
  => /\ resp.status = 200
     /\ resp.text = LookupRow.content
     /\ resp.found = TRUE
     /\ resp.threshold_met = TRUE

\* C9 witness: an entry at the threshold without spoken_response is answered
\* with its content
C9_Witness ==
  /\ LookupReturnedRow
  /\ LookupRow.similarity = 30
  /\ LookupRow.spoken_response = NoneStr
  /\ resp.text = "We are open from 9 to 5 on weekdays."
  /\ resp.found = TRUE

\* C10 as stated: every validated query, also one that meets a failure in
\* the matching path, ends in an answer that carries a non-empty text
C10_FailureAnsweredWithFallback ==
  ( resp.op = "query" /\ ~OnlySpaces(resp.agent_id) )
  => /\ resp.status = 200
     /\ ~EmptyOrAbsent(resp.text)

\* C10 amended: a validated query that meets a failure in the matching path
\* ends in a status 500 outcome that carries no answer text, and only such a
\* query does; every answer that is returned (status 200) carries a
\* non-empty text, the stored text of the matched entry or a fallback
C10_FailureIsServerError ==
  ( resp.op = "query" /\ ~OnlySpaces(resp.agent_id) )
  => /\ (resp.fault \in { "no_env", "rpc_error" } <=> resp.status = 500)
     /\ (resp.status = 500 => "text" \notin DOMAIN resp)
     /\ (resp.status # 500
         => /\ resp.status = 200
            /\ ~EmptyOrAbsent(resp.text)
            /\ (resp.found \/ resp.text \in FallbackSet))

\* C10 witness: the lookup raised for an agent that holds entries and the
\* outcome is a status 500
C10_Witness ==
  /\ resp.op = "query"
  /\ resp.fault = "rpc_error"
  /\ resp.status = 500
  /\ \E c \in document_chunks : OwnerOf(knowledge_bases, c) = resp.agent_id

\* C11: the outcome of a query that met an internal failure carries no
\* internal diagnostic: the text of the exception is not in the response
C11_ErrorCarriesNoDiagnostics ==
  ( resp.op = "query" /\ resp.status = 500 )
  => resp.detail # ExceptionText(resp.fault)

\* a list holds no element twice
NoRepeat(q) == \A i, j \in 1..Len(q) : i # j => q[i] # q[j]

\* the crawl_website call has returned
Returned == crawl.pc = "done"

\* C16: crawl_website never returns more than max_pages pages, and with
\* max_pages <= 0 it returns no page and fetches nothing
C16_AtMostMaxPages ==
  crawl.pc \in { "loop", "done" } =>
    /\ crawl.max_pages >= 0 => Len(crawl.pages) <= crawl.max_pages
    /\ crawl.max_pages <= 0 => ( crawl.pages = <<>> /\ crawl.fetched = <<>> )

\* a crawl of a site of three linked pages returned as many pages as
\* max_pages allows, and pages were left in the queue
C16_Witness ==
  /\ Returned
  /\ crawl.max_pages = 2
  /\ Len(crawl.pages) = 2
  /\ crawl.to_visit # <<>>

\* a crawl with max_pages = 0 returned
C16_WitnessZero == Returned /\ crawl.max_pages = 0

\* C17: crawl_website asks for no url twice, whether the fetch succeeds or
\* fails, and the pages it returns have pairwise distinct urls, also on a
\* site whose links form cycles
C17_NoUrlTwice ==
  crawl.pc \in { "loop", "done" } =>
    /\ NoRepeat(crawl.fetched)
    /\ \A i, j \in 1..Len(crawl.pages) : i # j => crawl.pages[i].url # crawl.pages[j].url

\* a crawl returned both pages of a cycle "/" -> "/a" -> "/", and a third
\* page whose fetch failed was linked from both
C17_Witness ==
  /\ Returned
  /\ InList("/a", crawl.site.links["/"]) /\ InList("/", crawl.site.links["/a"])
  /\ InList("/b", crawl.site.links["/"]) /\ InList("/b", crawl.site.links["/a"])
  /\ crawl.site.failing = { "/b" }
  /\ UrlsOfPages(crawl.pages) = { "/", "/a" }
  /\ InList("/b", crawl.fetched)

\* the pages that links of fetched pages lead to and whose fetch succeeds
RECURSIVE ReachFrom(_, _)
ReachFrom(site, R) ==
  LET more == { v \in Urls \ site.failing :
                  \E u \in R : InList(v, site.links[u]) } \ R
  IN  IF more = {} THEN R ELSE ReachFrom(site, R \cup more)

\* the pages reachable from the start url through fetched pages
Reachable(site, start_url) ==
  IF start_url \in site.failing THEN {} ELSE ReachFrom(site, { start_url })

Min(a, b) == IF a <= b THEN a ELSE b

C14_OneKbPerAgentUnderRace ==
  ( \A c \in DOMAIN callers.calls : callers.calls[c].pc \in { "done", "raised" } )
  => \A c \in DOMAIN callers.calls :
       LET rows == KbsOfAgent(knowledge_bases, callers.calls[c].agent_id)
       IN  /\ Cardinality(rows) = 1
           /\ callers.calls[c].kb_id = Some(FirstKb(rows).id)

\* C15: after any sequence of save_website_data calls, through the stored
\* procedure or through the direct select-then-update-or-insert path,
\* website_data holds at most one record per (agent, url), and the record of
\* the pair saved last carries the content saved last
C15_OneRecordPerAgentUrl ==
  /\ \A r1, r2 \in website_data :
       ( r1.agent_id = r2.agent_id /\ r1.url = r2.url ) => r1 = r2
  /\ ( resp.op = "save_website_data" /\ ~resp.raised ) =>
       \E r \in website_data :
         /\ r.agent_id = resp.agent_id /\ r.url = resp.url
         /\ r.id = resp.id
         /\ r.content = resp.content

\* a url saved before for both agents was saved again for agent a through
\* the direct path, with another text
C15_Witness ==
  /\ resp.op = "save_website_data"
  /\ resp.agent_id = <<"a">> /\ resp.url = "/" /\ resp.content = << "/", "v2" >>
  /\ resp.action = "updated"
  /\ \E r \in website_data :
       r.agent_id = <<"b">> /\ r.url = "/" /\ r.content = << "/", "v1" >>
  /\ Cardinality(website_data) = 2

\* the last request was a crawl, and it reported a failure to its caller
CrawlReportedFailure ==
  resp.op = "crawl" /\ ( resp.status = 500 \/ resp.success = FALSE )

\* the pages the crawl of the last request can fetch
Fetchable ==
  IF resp.max_pages <= 0 THEN {} ELSE Reachable(resp.site, "/")

\* C19 as stated: the crawl endpoint reports a failure exactly when no page
\* was fetched, and success=true whenever a page was fetched
C19_FailureIffZeroPages ==
  ( resp.op = "crawl" /\ resp.fault \notin { "no_env", "kb_error" } ) =>
    ( CrawlReportedFailure <=> Fetchable = {} )

\* C19: unless a store access of crawl_and_store outside the saving of
\* pages raises, the crawl endpoint answers success=false with
\* pages_crawled=0 exactly when no page was fetched, and success=true when a
\* page was fetched, whichever other pages failed to fetch or to be stored;
\* when such an access raises the answer is a server error
C19_FailureIffZeroPagesOrStoreError ==
  resp.op = "crawl" =>
    /\ resp.status = 500 <=> resp.fault # "none"
    /\ resp.status = 200 =>
         /\ resp.success = ( Fetchable # {} )
         /\ ~resp.success => resp.pages_crawled = 0
         /\ resp.success => /\ resp.pages_crawled >= 1
                            /\ resp.pages_saved <= resp.pages_crawled

\* a crawl fetched the home page, failed to fetch the page it links to and
\* failed to store the home page: success=true, one page crawled, none saved
C19_Witness ==
  /\ resp.op = "crawl" /\ resp.status = 200
  /\ resp.max_pages = DefaultMaxPages
  /\ resp.site.failing = { "/a" }
  /\ resp.page_fault["/"] = "store_error"
  /\ resp.success /\ resp.pages_crawled = 1 /\ resp.pages_saved = 0

\* a crawl whose home page could not be fetched answered success=false
C19_WitnessZero ==
  /\ resp.op = "crawl" /\ resp.status = 200
  /\ resp.max_pages = DefaultMaxPages /\ "/" \in resp.site.failing
  /\ ~resp.success /\ resp.pages_crawled = 0

\* the place of a status on the way processing -> crawled -> ready
StatusRank(status) ==
  CASE status = "processing" -> 1
    [] status = "crawled" -> 2
    [] status = "ready" -> 3

\* C12: over any sequence of crawls and Q&A saves the status of a knowledge
\* base only moves forward along processing -> crawled -> ready
C12_StatusOnlyForward ==
  [][ \A kb \in knowledge_bases :
        \A after \in knowledge_bases' :
          after.id = kb.id => StatusRank(after.status) >= StatusRank(kb.status) ]_vars

\* the last request was a save of a batch, by either function, and it ended
\* without an error response
BatchSaved(r) ==
  \/ r.op = "save" /\ r.status = 200
  \/ r.op = "save_qa_to_supabase"

\* the status of the knowledge base of an agent, or "none"
StatusOf(kbs, agent_id) ==
  IF KbsOfAgent(kbs, agent_id) = {} THEN "none"
  ELSE FirstKb(KbsOfAgent(kbs, agent_id)).status

\* C13: a save of a batch makes the knowledge base ready only if an entry
\* of the batch was saved: an empty batch, or a batch whose saves all fail,
\* leaves a status that is not ready as it is
C13_ReadyOnlyAfterASave ==
  [][ ( /\ BatchSaved(resp')
        /\ StatusOf(knowledge_bases, resp'.agent_id) # "ready"
        /\ StatusOf(knowledge_bases', resp'.agent_id) = "ready" )
      => resp'.saved_count >= 1 ]_vars

\* what a query response says of the lookup
Verdict(r) ==
  IF r.status = 200
  THEN << r.status, r.lookup, r.found, r.threshold_met, r.similarity, r.question_matched >>
  ELSE << r.status, r.lookup >>

\* C20: handling a query changes no knowledge base, no entry and no page
\* record, and a query handled after other queries gets the result the
\* same query got before them: queries do not interfere
C20_QueryIsPureRead ==
  [][ resp'.op = "query" =>
        /\ knowledge_bases' = knowledge_bases
        /\ document_chunks' = document_chunks
        /\ website_data' = website_data
        /\ ( /\ resp.op = "query"
             /\ resp.agent_id = resp'.agent_id
             /\ resp.query = resp'.query
             /\ resp.fault = resp'.fault )
           => Verdict(resp') = Verdict(resp) ]_vars

\* a query was answered with an entry of a store that holds entries of
\* both agents
C20_Witness ==
  /\ Answered /\ resp.found
  /\ \E c, d \in document_chunks :
       OwnerOf(knowledge_bases, c) # OwnerOf(knowledge_bases, d)

\* C21: the similarity of every query response is within [0.0, 1.0],
\* whatever value the lookup supplies, null and missing included
C21_SimilarityInRange ==
  Answered => ( resp.similarity >= 0 /\ resp.similarity <= 100 )

\* the answer to the query of the last request, asked again on the store
\* as it is, the draw of the fallback being fb
Again(fb) ==
  QueryOutcome(knowledge_bases, document_chunks, resp.agent_id, resp.query,
               resp.fault, fb)

C22_WitnessFallback ==
  /\ Answered /\ ~resp.found
  /\ \E fb \in 1..Len(FALLBACK_RESPONSES) : Again(fb).text # resp.text

\* the entries of the agent of the last request
AskedCorpus == Corpus(knowledge_bases, document_chunks, resp.agent_id)

\* C23: the entry returned as best match has the highest similarity of the
\* agent's corpus, and among the entries with that similarity it has the
\* highest priority
C23_TieBreakByPriority ==
  ( LookupReturnedRow /\ resp.fault = "none" ) =>
    \A c \in AskedCorpus :
      /\ Similarity(resp.query, c.question) <= LookupRow.similarity
      /\ Similarity(resp.query, c.question) = LookupRow.similarity
         => c.priority <= LookupRow.priority

\* the older of two entries that score the same has the lower priority,
\* and the lookup returned the younger
C23_Witness ==
  /\ LookupReturnedRow /\ resp.fault = "none"
  /\ \E c \in AskedCorpus :
       /\ Similarity(resp.query, c.question) = LookupRow.similarity
       /\ c.priority < LookupRow.priority
       /\ c.id < LookupRow.id

\* the last request was a query, by either handler, that returned found=true
FoundByEitherHandler ==
  \/ Answered /\ resp.found
  \/ resp.op = "rag_backend_query" /\ resp.found

\* C24: no query handler, of api.py or of rag_backend.py, returns found=true
\* for a lookup result whose similarity is below the threshold
C24_EveryPathAppliesThreshold ==
  FoundByEitherHandler => ToFloat(LookupRow.similarity) >= SIMILARITY_THRESHOLD

C25_WitnessAtThreshold ==
  Answered /\ resp.similarity = SIMILARITY_THRESHOLD /\ resp.threshold_met

C27_WitnessFound == Answered /\ resp.found /\ resp.threshold_met

\* the last request was a listing that returned a list
Listed == resp.op = "list" /\ resp.status = 200

\* the entries of an agent: the rows with a question of its knowledge bases
EntriesOf(agent_id) ==
  { c \in Corpus(knowledge_bases, document_chunks, agent_id) : c.question # NoneStr }

\* C26: after any sequence of saves and deletes the listing of an agent
\* holds each entry of the agent once and no other row, by descending
\* priority, and total is the length of the list; without knowledge base
\* the list is empty and total is 0
C26_ListingIsTheAgentsEntries ==
  Listed =>
    /\ { resp.qa_pairs[i] : i \in 1..Len(resp.qa_pairs) }
         = { ListedColumns(c) : c \in EntriesOf(resp.agent_id) }
    /\ Len(resp.qa_pairs) = Cardinality(EntriesOf(resp.agent_id))
    /\ \A i, j \in 1..Len(resp.qa_pairs) :
         i < j => resp.qa_pairs[i].priority >= resp.qa_pairs[j].priority
    /\ resp.total = Len(resp.qa_pairs)
    /\ KbsOfAgent(knowledge_bases, resp.agent_id) = {}
         => ( resp.qa_pairs = <<>> /\ resp.total = 0 )

\* the agent's entry of priority 10 was saved after its entry of priority 5
\* and is listed first
C26_Witness ==
  /\ Listed /\ resp.total = 2
  /\ resp.qa_pairs[1].priority = 10 /\ resp.qa_pairs[2].priority = 5
  /\ resp.qa_pairs[1].id > resp.qa_pairs[2].id

\* the listing of an agent holds its one entry while the other agent has an
\* entry too
C26_WitnessOtherAgent ==
  /\ Listed /\ resp.total = 1
  /\ \E c \in document_chunks : OwnerOf(knowledge_bases, c) # resp.agent_id

\* the response r is that of a save request whose k-th insert raised
SaveFailed(r) == r.op = "save" /\ r.status = 500

\* C28: when the save of the k-th pair of a batch raises, the request ends
\* with a server error, the k-1 pairs before it are stored as entries of
\* the agent, no other pair is, and the request does not make the
\* knowledge base ready: a knowledge base it created stays processing
C28_SaveBatchNotAtomic ==
  [][ SaveFailed(resp') =>
        LET k == resp'.failed_at
            added == document_chunks' \ document_chunks
        IN  /\ document_chunks \subseteq document_chunks'
            /\ Cardinality(added) = k - 1
            /\ \A i \in 1..(k - 1) :
                 \E c \in added :
                   /\ c.id = nextChunkId + i - 1
                   /\ c.question = resp'.qa_pairs[i].question
                   /\ c.priority = resp'.qa_pairs[i].priority
                   /\ OwnerOf(knowledge_bases', c) = resp'.agent_id
            /\ StatusOf(knowledge_bases', resp'.agent_id) =
                 IF StatusOf(knowledge_bases, resp'.agent_id) = "none"
                 THEN "processing"
                 ELSE StatusOf(knowledge_bases, resp'.agent_id) ]_vars

\* the save of the second pair of the first batch of an agent raised: the
\* first pair is stored and the knowledge base is processing
C28_Witness ==
  /\ SaveFailed(resp) /\ resp.failed_at = 2
  /\ \E c \in document_chunks :
       /\ c.question = resp.qa_pairs[1].question
       /\ OwnerOf(knowledge_bases, c) = resp.agent_id
  /\ Cardinality(document_chunks) = 1
  /\ StatusOf(knowledge_bases, resp.agent_id) = "processing"

\* the last request was a crawl that fetched no page and was answered
CrawlFetchedNothing == resp.op = "crawl" /\ resp.status = 200 /\ ~resp.success

\* C29: after a crawl that fetched no page the agent has a knowledge base,
\* created by the request if there was none, its status is crawled, and the
\* response says success=false with an empty kb_id
C29_ZeroPageCrawlChangesStore ==
  CrawlFetchedNothing =>
    /\ KbsOfAgent(knowledge_bases, resp.agent_id) # {}
    /\ StatusOf(knowledge_bases, resp.agent_id) = "crawled"
    /\ resp.kb_id = <<>>
    /\ resp.pages_crawled = 0

\* the first request of all was a crawl whose home page could not be
\* fetched: the store holds a knowledge base of the agent and no page
C29_Witness ==
  /\ CrawlFetchedNothing
  /\ "/" \in resp.site.failing /\ resp.max_pages = DefaultMaxPages
  /\ nextKbId = 2
  /\ Cardinality(knowledge_bases) = 1
  /\ website_data = {}

\* a turn of the loop is taken while the queue is not empty and fewer than
\* max_pages pages are collected, and it skips a visited url or fetches one
\* url that was not visited
TurnIsSkipOrNewFetch ==
  ( crawl.pc = "loop" /\ crawl'.pc = "loop" ) =>
    /\ crawl.to_visit # <<>>
    /\ Len(crawl.pages) < crawl.max_pages
    /\ \/ /\ Head(crawl.to_visit) \in crawl.visited
          /\ crawl'.fetched = crawl.fetched
       \/ /\ Head(crawl.to_visit) \notin crawl.visited
          /\ crawl'.fetched = Append(crawl.fetched, Head(crawl.to_visit))
          /\ crawl'.visited = crawl.visited \cup { Head(crawl.to_visit) }

\* C30: crawl_website returns on every link graph, with cycles or with
\* every fetch failing: each turn of its loop skips a visited url or
\* fetches a url not yet visited, and no fetch is made once max_pages pages
\* are collected or the queue is empty
C30_CrawlTerminates ==
  /\ [][TurnIsSkipOrNewFetch]_vars
  /\ <>Returned

\* the call returned from a site whose three pages link in a cycle, with
\* its queue empty
C30_Witness ==
  /\ Returned
  /\ crawl.site.links["/"] = << "/a" >>
  /\ crawl.site.links["/a"] = << "/b" >>
  /\ crawl.site.links["/b"] = << "/" >>
  /\ crawl.site.failing = {}
  /\ Len(crawl.pages) = 3
  /\ crawl.to_visit = <<>>

\* the call returned from a site whose every fetch fails
C30_WitnessAllFail ==
  Returned /\ crawl.site.failing = Urls /\ crawl.max_pages > 0 /\ crawl.fetched = << "/" >>

=============================================================================
